---- MODULE Spec2Model ----
(***************************************************************************)
(* ObservableVectorListDataAdapter (src/lib/ObservableVectorDataSource.js) *)
(* as a state machine.  The observable vector is mutated by the host; its  *)
(* "vectorchanged" listener and setNotificationHandler schedule callbacks  *)
(* with setImmediate; the event loop runs them one per tick, in order.     *)
(* JavaScript indices are 0-based; the sequences here are 1-based, so      *)
(* index i of the vector is vec[i + 1].                                    *)
(***************************************************************************)
EXTENDS Integers, Sequences, FiniteSets

\* ---------------------------------------------------------------- bounds
\* Vector elements are 1..NumElems; keys are unique, so the vector holds
\* each element at most once and its length is at most NumElems.
NumElems == 2
\* Host operations (vector mutations and setNotificationHandler calls) in a run.
MaxOps == 3
\* Fetches are tried on vectors of up to FetchLen elements, with counts up to
\* MaxCount and indices from -MaxCount to FetchLen + 1.
FetchLen == 3
MaxCount == 2
\* show() and hide() calls made on a flyout component in a run.
MaxCalls == 2

Elems == 1..NumElems
\* The notification handler objects the host may attach.
Handlers == {"h1", "h2"}
\* `that._notificationHandler` before the first setNotificationHandler call.
NoHandler == "undefined"

VARIABLES
    vec,        \* that._observableVector: the elements, in order
    handler,    \* that._notificationHandler
    strict,     \* whether the caller's keySelector/mapping throw on `undefined`
    queue,      \* ids of the callbacks passed to setImmediate and not run yet
    log,        \* every call made on a notification handler, in order
    scheduled,  \* every callback ever passed to setImmediate; scheduled[id]
    ran,        \* history: the callbacks run so far, in order, each with the
                \* vector and the handler it found and whether it threw
    tick,       \* number of the current turn of the event loop
    phase,      \* what the current turn runs: "host" code, or a setImmediate
                \* callback ("cb")
    ops,        \* host operations so far
    fetched,    \* settled value of the last fetch promise
    component   \* the flyout component of lib/ui/components, its presenter and
                \* the native control of its root element

vars == <<vec, handler, strict, queue, log, scheduled, ran, tick, phase, ops, fetched,
          component>>

\* ------------------------------------------------------- values and helpers
\* observableVector[index] for an index that is no element.
Undefined == 0
null == <<"null">>

\* The caller's key selector: element -> durable unique key.  Applied to
\* `undefined` it either throws (strict) or yields a key of no element.
keySelector(element) ==
    IF element = Undefined THEN <<"undefined">> ELSE <<"key", element>>

\* The caller's mapping: element -> presentation value.
mapping(element) ==
    IF element = Undefined THEN <<"undefined">> ELSE <<"data", element * element>>

\* observableVector[index], a JavaScript property read.
At(v, index) ==
    IF index >= 0 /\ index < Len(v) THEN v[index + 1] ELSE Undefined

\* A range that takes its stop as the last value.
rangeInclusive(start, stop) ==
    [k \in 1..(IF stop >= start THEN stop - start + 1 ELSE 0) |-> start + k - 1]

\* _.range(start, stop): start, start + 1, ..., stop - 1.
range(start, stop) ==
    [k \in 1..(IF stop > start THEN stop - start ELSE 0) |-> start + k - 1]

max(a, b) == IF a >= b THEN a ELSE b
min(a, b) == IF a <= b THEN a ELSE b

Contains(v, e) == \E k \in 1..Len(v) : v[k] = e
InsertAt(v, index, e) == SubSeq(v, 1, index) \o <<e>> \o SubSeq(v, index + 1, Len(v))
RemoveAt(v, index) == SubSeq(v, 1, index) \o SubSeq(v, index + 2, Len(v))
SetAt(v, index, e) == [v EXCEPT ![index + 1] = e]

\* ------------------------------------------------------------ the adapter
_itemFromIndex(v, index) ==
    [data |-> mapping(At(v, index)), key |-> keySelector(At(v, index))]

_keyFromIndex(v, index) == keySelector(At(v, index))

\* A call on notification handler h.
Call(h, kind, args) == [h |-> h, kind |-> kind, args |-> args]

\* The handler that was attached when the callback was scheduled.
ReceiverCaptured(task, current) == task.attached

\* The handler the deferred callbacks call: `that._notificationHandler`,
\* read when the callback runs (task is the callback, current the field).
Receiver(task, current) == current

\* _notifyInsertedAtIndex(index): the inserted(...) call it makes on h.
_notifyInsertedAtIndex(v, h, index) ==
    LET previousKey == IF index = 0 THEN null ELSE _keyFromIndex(v, index - 1)
        nextKey == IF index < Len(v) - 1 THEN _keyFromIndex(v, index + 1) ELSE null
    IN  Call(h, "inserted", <<_itemFromIndex(v, index), previousKey, nextKey, index>>)

\* Whether _notifyInsertedAtIndex(index) applies the selectors to `undefined`.
InsertedReadsUndefined(v, index) ==
    \/ index /= 0 /\ At(v, index - 1) = Undefined
    \/ At(v, index) = Undefined

\* That closure with removed(...) given the key now at the index.
makeCollectionChangeHandlerKeyed(collectionChange, index, v, h) ==
    CASE collectionChange = "reset" -> <<Call(h, "reload", <<>>)>>
      [] collectionChange = "itemInserted" -> <<_notifyInsertedAtIndex(v, h, index)>>
      [] collectionChange = "itemRemoved" ->
            <<Call(h, "removed", <<_keyFromIndex(v, index), index>>)>>
      [] collectionChange = "itemChanged" -> <<Call(h, "changed", <<_itemFromIndex(v, index)>>)>>
      [] OTHER -> <<>>

\* The closure makeCollectionChangeHandler(collectionChange, index) returns:
\* the calls it makes on h when run against vector v.
makeCollectionChangeHandler(collectionChange, index, v, h) ==
    CASE collectionChange = "reset" -> <<Call(h, "reload", <<>>)>>
      [] collectionChange = "itemInserted" -> <<_notifyInsertedAtIndex(v, h, index)>>
      [] collectionChange = "itemRemoved" -> <<Call(h, "removed", <<null, index>>)>>
      [] collectionChange = "itemChanged" -> <<Call(h, "changed", <<_itemFromIndex(v, index)>>)>>
      [] OTHER -> <<>>

\* Whether that closure applies the selectors to `undefined`.
ChangeReadsUndefined(collectionChange, index, v) ==
    \/ collectionChange = "itemInserted" /\ InsertedReadsUndefined(v, index)
    \/ collectionChange = "itemChanged" /\ At(v, index) = Undefined

\* That callback walking the vector from its last element to its first.
replayDescending(v, h) ==
    IF Len(v) > 0
    THEN <<Call(h, "beginNotifications", <<>>)>>
         \o [k \in 1..Len(v) |-> _notifyInsertedAtIndex(v, h, Len(v) - k)]
         \o <<Call(h, "endNotifications", <<>>)>>
    ELSE <<>>

\* That callback without its closing endNotifications().
replayUnclosed(v, h) ==
    IF Len(v) > 0
    THEN <<Call(h, "beginNotifications", <<>>)>>
         \o [k \in 1..Len(v) |-> _notifyInsertedAtIndex(v, h, k - 1)]
    ELSE <<>>

\* The callback setNotificationHandler passes to setImmediate: the calls it
\* makes on h when run against vector v.
replay(v, h) ==
    IF Len(v) > 0
    THEN <<Call(h, "beginNotifications", <<>>)>>
         \o [k \in 1..Len(v) |-> _notifyInsertedAtIndex(v, h, k - 1)]
         \o <<Call(h, "endNotifications", <<>>)>>
    ELSE <<>>

\* A host operation runs in a turn of host code: the current one, or a new
\* turn when the last turn ran a setImmediate callback.
HostTick == IF phase = "cb" THEN tick + 1 ELSE tick

\* A callback handed to setImmediate.  collectionChange and index are what the
\* closure captured; id, at, attached and after are history (the turn it was
\* scheduled in, the handler attached then, the vector then).
Task(type, collectionChange, index) ==
    [id |-> Len(scheduled) + 1, type |-> type,
     collectionChange |-> collectionChange, index |-> index,
     at |-> HostTick, attached |-> handler', after |-> vec']

\* A scheduler that runs the newest callback first.
setImmediateNewestFirst(q, task) == <<task.id>> \o q

\* setImmediate(callback): the callback joins the queue of pending callbacks.
setImmediate(q, task) == Append(q, task.id)

\* The calls a callback makes when it runs, and whether it throws.
TaskThrows(task, v) ==
    /\ strict
    /\ task.type = "change"
    /\ ChangeReadsUndefined(task.collectionChange, task.index, v)

\* The calls of a callback whose replay walks the vector as it was when the
\* handler was attached.
TaskCallsAtAttach(task, v, current) ==
    IF TaskThrows(task, v) THEN <<>>
    ELSE IF task.type = "replay" THEN replay(task.after, Receiver(task, current))
    ELSE makeCollectionChangeHandler(task.collectionChange, task.index, v,
                                     Receiver(task, current))

TaskCalls(task, v, current) ==
    IF TaskThrows(task, v) THEN <<>>
    ELSE IF task.type = "replay" THEN replay(v, Receiver(task, current))
    ELSE makeCollectionChangeHandler(task.collectionChange, task.index, v,
                                     Receiver(task, current))

\* A call as recorded in the log: with the callback that made it and the turn.
Stamp(calls, task, t) ==
    [k \in 1..Len(calls) |->
        [h |-> calls[k].h, kind |-> calls[k].kind, args |-> calls[k].args,
         cause |-> task.id, tick |-> t]]

\* A listener that runs the closure at once instead of deferring it.
vectorchangedSync(collectionChange, index) ==
    IF handler = NoHandler
    THEN UNCHANGED <<queue, scheduled, log>>
    ELSE LET task == Task("change", collectionChange, index)
         IN  /\ UNCHANGED queue
             /\ scheduled' = Append(scheduled, task)
             /\ log' = log \o Stamp(TaskCalls(task, vec', handler), task, HostTick)

\* A listener without the early return taken when no handler is attached.
vectorchangedUnguarded(collectionChange, index) ==
    LET task == Task("change", collectionChange, index)
    IN  /\ queue' = setImmediate(queue, task)
        /\ scheduled' = Append(scheduled, task)
        /\ UNCHANGED log

\* The "vectorchanged" listener of the constructor.
vectorchanged(collectionChange, index) ==
    IF handler = NoHandler
    THEN UNCHANGED <<queue, scheduled, log>>
    ELSE LET task == Task("change", collectionChange, index)
         IN  /\ queue' = setImmediate(queue, task)
             /\ scheduled' = Append(scheduled, task)
             /\ UNCHANGED log

\* ----------------------------------------------------------------- fetches
\* WinJS.Promise.wrap(value) and WinJS.Promise.wrapError(error), settled.
PromiseWrap(value) == [state |-> "fulfilled", value |-> value]
PromiseWrapError(error) == [state |-> "rejected", error |-> error]

\* new WinJS.ErrorFromName(WinJS.UI.FetchError.doesNotExist)
doesNotExist == "doesNotExist"

getCount(v) == PromiseWrap(Len(v))

\* itemsFromIndex with the offset taken to be countBefore, clamping ignored.
itemsFromIndexOffsetUnclamped(v, index, countBefore, countAfter) ==
    LET length == Len(v)
    IN  IF index >= length
        THEN PromiseWrapError(doesNotExist)
        ELSE LET start == max(index - countBefore, 0)
                 end == min(index + countAfter, length - 1)
                 indices == range(start, end + 1)
             IN  PromiseWrap([absoluteIndex |-> index,
                              atEnd |-> (end = length - 1),
                              atStart |-> (start = 0),
                              items |-> [k \in 1..Len(indices) |->
                                            _itemFromIndex(v, indices[k])],
                              offset |-> countBefore,
                              totalCount |-> length])

itemsFromIndex(v, index, countBefore, countAfter) ==
    LET length == Len(v)
    IN  IF index >= length
        THEN PromiseWrapError(doesNotExist)
        ELSE LET start == max(index - countBefore, 0)
                 end == min(index + countAfter, length - 1)
                 indices == range(start, end + 1)
             IN  PromiseWrap([absoluteIndex |-> index,
                              atEnd |-> (end = length - 1),
                              atStart |-> (start = 0),
                              items |-> [k \in 1..Len(indices) |->
                                            _itemFromIndex(v, indices[k])],
                              offset |-> index - start,
                              totalCount |-> length])

itemsFromStart(v, count) == itemsFromIndex(v, 0, 0, count - 1)

\* itemsFromEnd asking for count items before the last one, not count - 1.
itemsFromEndOffByOne(v, count) == itemsFromIndex(v, Len(v) - 1, count, 0)

itemsFromEnd(v, count) == itemsFromIndex(v, Len(v) - 1, count - 1, 0)

\* ---------------------------------------------------------------- actions
HostOp ==
    /\ ops < MaxOps
    /\ phase' = "host"
    /\ tick' = HostTick
    /\ ops' = ops + 1
    /\ UNCHANGED <<strict, ran, fetched, component>>

\* observableVector.insertAt(index, e) / append(e): fires itemInserted.
\* Elements are interchangeable, so the one inserted is the least one absent.
VectorInsertAt ==
    \E index \in 0..Len(vec), e \in Elems :
        /\ ~Contains(vec, e)
        /\ \A d \in 1..(e - 1) : Contains(vec, d)
        /\ vec' = InsertAt(vec, index, e)
        /\ UNCHANGED handler
        /\ vectorchanged("itemInserted", index)
        /\ HostOp

\* observableVector.removeAt(index) / removeAtEnd(): fires itemRemoved.
VectorRemoveAt ==
    \E index \in 0..(Len(vec) - 1) :
        /\ vec' = RemoveAt(vec, index)
        /\ UNCHANGED handler
        /\ vectorchanged("itemRemoved", index)
        /\ HostOp

\* observableVector.setAt(index, e): fires itemChanged.
VectorSetAt ==
    \E index \in 0..(Len(vec) - 1), e \in Elems :
        /\ ~Contains(RemoveAt(vec, index), e)
        /\ vec' = SetAt(vec, index, e)
        /\ UNCHANGED handler
        /\ vectorchanged("itemChanged", index)
        /\ HostOp

\* observableVector.clear(): fires reset (index 0).
VectorClear ==
    /\ vec' = <<>>
    /\ UNCHANGED handler
    /\ vectorchanged("reset", 0)
    /\ HostOp

\* adapter.setNotificationHandler(notificationHandler)
setNotificationHandler ==
    \E notificationHandler \in Handlers :
        /\ handler' = notificationHandler
        /\ UNCHANGED vec
        /\ LET task == Task("replay", "none", 0)
           IN  /\ queue' = setImmediate(queue, task)
               /\ scheduled' = Append(scheduled, task)
               /\ UNCHANGED log
        /\ HostOp

\* A callback run whose replay takes the elements out of the vector as it
\* reports them.
RunImmediateDraining ==
    /\ queue /= <<>>
    /\ LET task == scheduled[Head(queue)]
       IN  /\ log' = log \o Stamp(TaskCalls(task, vec, handler), task, tick + 1)
           /\ ran' = Append(ran, [id |-> task.id, vec |-> vec, handler |-> handler,
                                  tick |-> tick + 1, threw |-> TaskThrows(task, vec)])
           /\ vec' = IF task.type = "replay" THEN <<>> ELSE vec
    /\ queue' = Tail(queue)
    /\ tick' = tick + 1
    /\ phase' = "cb"
    /\ UNCHANGED <<handler, strict, scheduled, ops, fetched, component>>

\* The event loop runs the oldest setImmediate callback, in a turn of its own.
RunImmediate ==
    /\ queue /= <<>>
    /\ LET task == scheduled[Head(queue)]
       IN  /\ log' = log \o Stamp(TaskCalls(task, vec, handler), task, tick + 1)
           /\ ran' = Append(ran, [id |-> task.id, vec |-> vec, handler |-> handler,
                                  tick |-> tick + 1, threw |-> TaskThrows(task, vec)])
    /\ queue' = Tail(queue)
    /\ tick' = tick + 1
    /\ phase' = "cb"
    /\ UNCHANGED <<vec, handler, strict, scheduled, ops, fetched, component>>

NoFetch == [op |-> "none"]
\* No flyout component has been constructed.
NoComponent == [stage |-> "none"]

Init ==
    /\ vec \in {[k \in 1..n |-> k] : n \in 0..NumElems}
    /\ handler = NoHandler
    /\ strict \in BOOLEAN
    /\ queue = <<>>
    /\ log = <<>>
    /\ scheduled = <<>>
    /\ ran = <<>>
    /\ tick = 0
    /\ phase = "host"
    /\ ops = 0
    /\ fetched = NoFetch
    /\ component = NoComponent

Next ==
    \/ VectorInsertAt
    \/ VectorRemoveAt
    \/ VectorSetAt
    \/ VectorClear
    \/ setNotificationHandler
    \/ RunImmediate

Spec == Init /\ [][Next]_vars

\* ------------------------------------------------------ the fetch actions
\* A fetch as recorded: the call made and the settled promise it returned.
Fetched(op, index, countBefore, countAfter, count, promise) ==
    [op |-> op, index |-> index, countBefore |-> countBefore,
     countAfter |-> countAfter, count |-> count, promise |-> promise]

FetchFrame ==
    UNCHANGED <<vec, handler, strict, queue, log, scheduled, ran, tick, phase, ops, component>>

FetchIndices == (0 - MaxCount)..(FetchLen + 1)
FetchCounts == (0 - 1)..MaxCount

FetchItemsFromIndex ==
    \E index \in FetchIndices, countBefore \in FetchCounts, countAfter \in FetchCounts :
        /\ fetched' = Fetched("itemsFromIndex", index, countBefore, countAfter, 0,
                              itemsFromIndex(vec, index, countBefore, countAfter))
        /\ FetchFrame

FetchItemsFromStart ==
    \E count \in 0..(MaxCount + 1) :
        /\ fetched' = Fetched("itemsFromStart", 0, 0, 0, count, itemsFromStart(vec, count))
        /\ FetchFrame

FetchItemsFromEnd ==
    \E count \in 0..(MaxCount + 1) :
        /\ fetched' = Fetched("itemsFromEnd", 0, 0, 0, count, itemsFromEnd(vec, count))
        /\ FetchFrame

FetchGetCount ==
    /\ fetched' = Fetched("getCount", 0, 0, 0, 0, getCount(vec))
    /\ FetchFrame

\* The adapter over a vector of up to FetchLen elements, ascending or
\* descending, with no handler attached.
FetchVectors ==
    {[k \in 1..n |-> k] : n \in 0..FetchLen} \cup {[k \in 1..n |-> n + 1 - k] : n \in 0..FetchLen}

FetchInit ==
    /\ vec \in FetchVectors
    /\ handler = NoHandler
    /\ strict \in BOOLEAN
    /\ queue = <<>>
    /\ log = <<>>
    /\ scheduled = <<>>
    /\ ran = <<>>
    /\ tick = 0
    /\ phase = "host"
    /\ ops = 0
    /\ fetched = NoFetch
    /\ component = NoComponent

FetchNext ==
    \/ FetchItemsFromIndex
    \/ FetchItemsFromStart
    \/ FetchItemsFromEnd
    \/ FetchGetCount

FetchSpec == FetchInit /\ [][FetchNext]_vars

\* ------------------------------------------------------- claims on fetches
IsFetch(op) == fetched.op = op
Fulfilled == fetched.op /= "none" /\ fetched.promise.state = "fulfilled"
Rejected ==
    /\ fetched.op /= "none"
    /\ fetched.promise.state = "rejected"
    /\ fetched.promise.error = doesNotExist
InRange(index) == index >= 0 /\ index < Len(vec)

\* The item the adapter is to report for element e.
ItemOf(e) == [data |-> mapping(e), key |-> keySelector(e)]

\* C5: itemsFromIndex fails with doesNotExist exactly when index is outside
\* [0, len), for index >= len and for index < 0 alike, and on an empty vector
\* every fetch (itemsFromIndex, itemsFromStart, itemsFromEnd) fails with it.
C5_OutOfRangeFails ==
    /\ IsFetch("itemsFromIndex") => (Rejected <=> ~InRange(fetched.index))
    /\ IsFetch("itemsFromIndex") => (Fulfilled <=> InRange(fetched.index))
    /\ (Len(vec) = 0 /\ fetched.op \in {"itemsFromIndex", "itemsFromStart", "itemsFromEnd"})
           => Rejected

\* A fetch in the preconditions of C6 and C7: a valid index, counts >= 0.
ValidFetch ==
    /\ IsFetch("itemsFromIndex")
    /\ InRange(fetched.index)
    /\ fetched.countBefore >= 0
    /\ fetched.countAfter >= 0

\* C6: for index in [0, len) and counts >= 0, itemsFromIndex returns the items
\* of v[start..end] in ascending order, start = max(0, index - countBefore),
\* end = min(len - 1, index + countAfter), with absoluteIndex = index,
\* offset = index - start, atStart = (start = 0), atEnd = (end = len - 1),
\* totalCount = len.
C6_Window ==
    ValidFetch =>
        LET len == Len(vec)
            lo == fetched.index - fetched.countBefore
            hi == fetched.index + fetched.countAfter
            start == IF lo < 0 THEN 0 ELSE lo
            end == IF hi > len - 1 THEN len - 1 ELSE hi
            value == fetched.promise.value
        IN  /\ Fulfilled
            /\ Len(value.items) = end - start + 1
            /\ \A j \in start..end : value.items[j - start + 1] = ItemOf(vec[j + 1])
            /\ value.absoluteIndex = fetched.index
            /\ value.offset = fetched.index - start
            /\ value.atStart = (start = 0)
            /\ value.atEnd = (end = len - 1)
            /\ value.totalCount = len

\* A window clamped at the start, of several items, that stops before the end.
C6_Witness ==
    /\ ValidFetch
    /\ Fulfilled
    /\ fetched.countBefore > fetched.index
    /\ Len(fetched.promise.value.items) >= 2
    /\ fetched.promise.value.atStart
    /\ ~fetched.promise.value.atEnd

\* C7: for index in [0, len) and counts >= 0, the result has
\* 0 <= offset < items.length and items[offset].key = keySelector(v[index]).
C7_OffsetItem ==
    ValidFetch =>
        LET value == fetched.promise.value
        IN  /\ Fulfilled
            /\ value.offset >= 0
            /\ value.offset < Len(value.items)
            /\ value.items[value.offset + 1].key = keySelector(vec[fetched.index + 1])

\* A fetch whose window was clamped at the start, so offset < countBefore,
\* and that holds items after the requested one too.
C7_Witness ==
    /\ ValidFetch
    /\ Fulfilled
    /\ fetched.promise.value.offset < fetched.countBefore
    /\ fetched.promise.value.offset + 1 < Len(fetched.promise.value.items)

\* --------------------------------------------------- claims on notifications
TaskIds == 1..Len(scheduled)
IsReplay(id) == scheduled[id].type = "replay"
IsChange(id, collectionChange) ==
    scheduled[id].type = "change" /\ scheduled[id].collectionChange = collectionChange
Pending(id) == \E k \in 1..Len(queue) : queue[k] = id
Runs(id) == {k \in 1..Len(ran) : ran[k].id = id}
RunOf(id) == ran[CHOOSE k \in Runs(id) : TRUE]
\* The handler calls callback id made, in order, and where they are in the log.
CallsOf(id) == SelectSeq(log, LAMBDA e : e.cause = id)
PlacesOf(id) == {k \in 1..Len(log) : log[k].cause = id}
Contiguous(S) == \A a \in S, b \in S : \A c \in a..b : c \in S

\* What inserted(...) is to carry for index i of vector v.
InsertedArgs(v, i) ==
    <<ItemOf(v[i + 1]),
      IF i = 0 THEN null ELSE keySelector(v[i]),
      IF i + 1 < Len(v) THEN keySelector(v[i + 2]) ELSE null,
      i>>

\* The calls a replay over vector v is to make: begin, one inserted per
\* element in ascending index order, end.
IsReplayOf(calls, v) ==
    /\ Len(calls) = Len(v) + 2
    /\ calls[1].kind = "beginNotifications"
    /\ calls[Len(calls)].kind = "endNotifications"
    /\ \A j \in 1..Len(v) :
          /\ calls[j + 1].kind = "inserted"
          /\ calls[j + 1].args[4] = j - 1
          /\ calls[j + 1].args[1].key = keySelector(v[j])

\* C1 as stated: after setNotificationHandler(h) on a non-empty vector, h
\* observes, exactly once and on a later tick, begin, one inserted per element
\* of the vector in ascending index order, end; for every call of
\* setNotificationHandler, also when another handler is attached before the
\* replay has run.  (Read in the claim's favour: the vector is the one the
\* replay finds, still non-empty, and h has nothing to observe before the
\* replay has run.)
C1_HandlerObservesReplay ==
    \A id \in TaskIds :
        (IsReplay(id) /\ scheduled[id].after /= <<>> /\ ~Pending(id)
            /\ RunOf(id).vec /= <<>>) =>
            LET h == scheduled[id].attached
                seen == SelectSeq(CallsOf(id), LAMBDA e : e.h = h)
            IN  /\ IsReplayOf(seen, RunOf(id).vec)
                /\ \A k \in PlacesOf(id) : log[k].tick > scheduled[id].at

\* C1 amended: every setNotificationHandler(h) call schedules one replay,
\* which runs exactly once and on a later tick; if the vector is non-empty
\* when it runs, the handler attached at that moment (h only if no other
\* handler was attached since) receives, in that one tick and with no other
\* call in between, begin, one inserted per element then in the vector in
\* ascending index order, end; if it is empty, the replay calls nothing.
C1_ReplayRunsOnce ==
    \A id \in TaskIds :
        IsReplay(id) =>
            /\ Cardinality(Runs(id)) <= 1
            /\ Pending(id) <=> Runs(id) = {}
            /\ Pending(id) => CallsOf(id) = <<>>
            /\ ~Pending(id) =>
                  /\ RunOf(id).tick > scheduled[id].at
                  /\ Contiguous(PlacesOf(id))
                  /\ \A k \in PlacesOf(id) :
                        /\ log[k].h = RunOf(id).handler
                        /\ log[k].tick = RunOf(id).tick
                  /\ IF RunOf(id).vec = <<>>
                     THEN CallsOf(id) = <<>>
                     ELSE IsReplayOf(CallsOf(id), RunOf(id).vec)

\* A replay of several elements that went to a handler attached after the one
\* whose setNotificationHandler call scheduled it.
C1_Witness ==
    \E id \in TaskIds :
        /\ IsReplay(id)
        /\ ~Pending(id)
        /\ Len(RunOf(id).vec) >= 2
        /\ RunOf(id).handler /= scheduled[id].attached
        /\ CallsOf(id) /= <<>>

KindFor(collectionChange) ==
    CASE collectionChange = "reset" -> "reload"
      [] collectionChange = "itemInserted" -> "inserted"
      [] collectionChange = "itemRemoved" -> "removed"
      [] collectionChange = "itemChanged" -> "changed"

\* C2: every vector change event that occurs while a handler is attached
\* yields exactly one handler call, of the kind matching the event; none is
\* dropped, duplicated or merged with another.
C2_OneCallPerEvent ==
    \A id \in TaskIds :
        scheduled[id].type = "change" =>
            IF Pending(id)
            THEN CallsOf(id) = <<>>
            ELSE /\ Len(CallsOf(id)) = 1
                 /\ CallsOf(id)[1].kind = KindFor(scheduled[id].collectionChange)

\* C3: no handler call is made in the turn of the vector mutation or of the
\* setNotificationHandler call that caused it: each runs in a later turn.
C3_NeverSynchronous ==
    \A k \in 1..Len(log) : log[k].tick > scheduled[log[k].cause].at

\* Handler calls caused by a vector change and by a replay have both been made.
C3_Witness ==
    /\ \E k \in 1..Len(log) : scheduled[log[k].cause].type = "change"
    /\ \E k \in 1..Len(log) : IsReplay(log[k].cause)

\* C4: the inserted(item, previousKey, nextKey, index) call for an insert at i
\* has index = i and describes the inserted element and its two neighbours
\* (null at the boundaries) as the vector was right after that insertion, even
\* when the vector changes again before the deferred call runs.
C4_InsertedAsAtInsertion ==
    \A k \in 1..Len(log) :
        IsChange(log[k].cause, "itemInserted") =>
            /\ log[k].kind = "inserted"
            /\ log[k].args = InsertedArgs(scheduled[log[k].cause].after,
                                          scheduled[log[k].cause].index)

\* C8: a remove event at index i that occurs while a handler is attached
\* yields exactly one removed(key, index) call, with key = null and index = i,
\* on the handler attached when the deferred call runs, whatever happens to
\* the vector in between.
C8_RemovedOnce ==
    \A id \in TaskIds :
        IsChange(id, "itemRemoved") =>
            IF Pending(id)
            THEN CallsOf(id) = <<>>
            ELSE /\ Len(CallsOf(id)) = 1
                 /\ CallsOf(id)[1].kind = "removed"
                 /\ CallsOf(id)[1].args = <<null, scheduled[id].index>>
                 /\ CallsOf(id)[1].h = RunOf(id).handler

\* A removal was reported after the vector had changed again, at an index
\* that held an element when the call ran.
C8_Witness ==
    \E id \in TaskIds :
        /\ IsChange(id, "itemRemoved")
        /\ ~Pending(id)
        /\ RunOf(id).vec /= scheduled[id].after
        /\ scheduled[id].index < Len(RunOf(id).vec)
        /\ CallsOf(id) /= <<>>

\* The setNotificationHandler calls made in turns before turn t.
AttachesBefore(t) == {id \in TaskIds : IsReplay(id) /\ scheduled[id].at < t}
LastAttachBefore(t) ==
    CHOOSE id \in AttachesBefore(t) : \A other \in AttachesBefore(t) : other <= id

\* C9: at most one handler is attached at a time: every handler call, from a
\* replay or from a vector change, is received by the handler of the latest
\* setNotificationHandler call, so a handler that has been replaced receives
\* nothing more, not even from callbacks scheduled while it was attached.
C9_OnlyAttachedHandler ==
    \A k \in 1..Len(log) :
        /\ AttachesBefore(log[k].tick) /= {}
        /\ log[k].h = scheduled[LastAttachBefore(log[k].tick)].attached

\* Callbacks scheduled while one handler was attached, a replay and a vector
\* change, made their calls on the handler that replaced it.
C9_Witness ==
    /\ \E k \in 1..Len(log) :
          /\ IsReplay(log[k].cause)
          /\ scheduled[log[k].cause].attached /= log[k].h
    /\ \E k \in 1..Len(log) :
          /\ ~IsReplay(log[k].cause)
          /\ scheduled[log[k].cause].attached /= log[k].h

\* C10: the replay looks at the vector when it runs, not when the handler was
\* attached: on a vector empty by then it calls nothing (no begin, no end);
\* otherwise its inserted calls describe exactly the elements then present.
C10_ReplayReadsAtRunTime ==
    \A k \in 1..Len(ran) :
        IsReplay(ran[k].id) =>
            LET v == ran[k].vec
                calls == CallsOf(ran[k].id)
            IN  IF v = <<>>
                THEN calls = <<>>
                ELSE /\ Len(calls) = Len(v) + 2
                     /\ calls[1].kind = "beginNotifications"
                     /\ calls[Len(calls)].kind = "endNotifications"
                     /\ \A j \in 1..Len(v) :
                           /\ calls[j + 1].kind = "inserted"
                           /\ calls[j + 1].args = InsertedArgs(v, j - 1)

\* A handler was attached to a non-empty vector, the vector was emptied
\* before the replay ran, and the replay, run since, called nothing.
C10_Witness ==
    \E k \in 1..Len(ran) :
        /\ IsReplay(ran[k].id)
        /\ scheduled[ran[k].id].after /= <<>>
        /\ ran[k].vec = <<>>
        /\ CallsOf(ran[k].id) = <<>>

\* C15: on a non-empty vector and for count >= 1, itemsFromStart(count)
\* returns the first min(count, len) items in order with offset = 0 and
\* atStart, and itemsFromEnd(count) the last min(count, len) items in order
\* with atEnd and offset at the last element; they are
\* itemsFromIndex(0, 0, count - 1) and itemsFromIndex(len - 1, count - 1, 0).
C15_StartAndEnd ==
    (Len(vec) > 0 /\ fetched.op \in {"itemsFromStart", "itemsFromEnd"}
        /\ fetched.count >= 1) =>
        LET len == Len(vec)
            n == IF fetched.count < len THEN fetched.count ELSE len
            value == fetched.promise.value
        IN  /\ Fulfilled
            /\ Len(value.items) = n
            /\ value.totalCount = len
            /\ IsFetch("itemsFromStart") =>
                  /\ \A j \in 1..n : value.items[j] = ItemOf(vec[j])
                  /\ value.offset = 0
                  /\ value.absoluteIndex = 0
                  /\ value.atStart
                  /\ value.atEnd = (n = len)
                  /\ fetched.promise = itemsFromIndex(vec, 0, 0, fetched.count - 1)
            /\ IsFetch("itemsFromEnd") =>
                  /\ \A j \in 1..n : value.items[j] = ItemOf(vec[len - n + j])
                  /\ value.offset = n - 1
                  /\ value.absoluteIndex = len - 1
                  /\ value.atEnd
                  /\ value.atStart = (n = len)
                  /\ fetched.promise = itemsFromIndex(vec, len - 1, fetched.count - 1, 0)

\* itemsFromEnd returned several items, the last ones of a longer vector.
C15_Witness ==
    /\ IsFetch("itemsFromEnd")
    /\ fetched.count >= 2
    /\ fetched.count < Len(vec)
    /\ Fulfilled
    /\ Len(fetched.promise.value.items) = fetched.count
    /\ ~fetched.promise.value.atStart

\* C20: every fetch that succeeds (itemsFromIndex with any integer index,
\* countBefore and countAfter; itemsFromStart / itemsFromEnd with any
\* count >= 0) returns a well-formed window: items is non-empty,
\* 0 <= offset < items.length, every item is an element of the vector, and
\* items[offset] is the item at absoluteIndex.
C20_WellFormedWindow ==
    (Fulfilled /\ fetched.op \in {"itemsFromIndex", "itemsFromStart", "itemsFromEnd"}) =>
        LET value == fetched.promise.value
        IN  /\ value.items /= <<>>
            /\ value.offset >= 0
            /\ value.offset < Len(value.items)
            /\ \A j \in 1..Len(value.items) :
                  \E k \in 1..Len(vec) : value.items[j] = ItemOf(vec[k])
            /\ InRange(value.absoluteIndex)
            /\ value.items[value.offset + 1] = ItemOf(vec[value.absoluteIndex + 1])

\* C16: a vector change that occurs while no handler is attached schedules
\* nothing: it never yields a reload, inserted, removed or changed call, not
\* even when a handler is attached later in the same tick; such a change
\* reaches a later handler only through the replay of the vector's contents.
C16_NoHandlerNoSchedule ==
    /\ handler = NoHandler => (scheduled = <<>> /\ queue = <<>> /\ log = <<>>)
    /\ \A id \in TaskIds :
          scheduled[id].type = "change" =>
              /\ scheduled[id].attached \in Handlers
              /\ \E first \in 1..(id - 1) : IsReplay(first)
    /\ \A k \in 1..Len(log) :
          log[k].kind \in {"reload", "removed", "changed"} =>
              scheduled[log[k].cause].attached \in Handlers
    /\ \A k \in 1..Len(log) :
          (log[k].kind = "inserted" /\ ~IsReplay(log[k].cause)) =>
              scheduled[log[k].cause].attached \in Handlers

\* The vector was changed twice before a handler was attached in the same
\* turn; nothing but the replay was scheduled, and it has reported the vector.
C16_Witness ==
    /\ ops = 3
    /\ Len(scheduled) = 1
    /\ IsReplay(1)
    /\ scheduled[1].at = 0
    /\ queue = <<>>
    /\ log /= <<>>

\* C18: deferred calls are delivered in the order they were scheduled: the
\* call for an earlier event runs before the call for a later one, and the
\* replay of a setNotificationHandler call runs before the call for any event
\* that occurred after it.
C18_DeliveredInOrder ==
    /\ \A i \in 1..Len(ran), j \in 1..Len(ran) : i < j => ran[i].id < ran[j].id
    /\ \A i \in 1..Len(log), j \in 1..Len(log) : i < j => log[i].cause <= log[j].cause
    /\ \A i \in 1..Len(ran), j \in 1..Len(queue) : ran[i].id < queue[j]
    /\ \A i \in 1..Len(queue), j \in 1..Len(queue) : i < j => queue[i] < queue[j]

\* A replay and the call for an event that followed its attach have both been
\* delivered, while a still later event waits.
C18_Witness ==
    /\ \E i \in 1..Len(log), j \in 1..Len(log) :
          /\ i < j
          /\ IsReplay(log[i].cause)
          /\ ~IsReplay(log[j].cause)
    /\ queue /= <<>>

\* C19: replay batches are well bracketed: every beginNotifications() is
\* followed by its endNotifications() in the same tick with only inserted(...)
\* calls of the replay between them, so between ticks as many begins as ends
\* have been made, and no reload, removed or changed call, nor an inserted
\* call caused by a vector change, falls between a begin and its end.
C19_WellBracketed ==
    /\ \A k \in 1..Len(log) :
          log[k].kind = "beginNotifications" =>
              \E m \in (k + 1)..Len(log) :
                  /\ log[m].kind = "endNotifications"
                  /\ log[m].tick = log[k].tick
                  /\ log[m].cause = log[k].cause
                  /\ \A j \in (k + 1)..(m - 1) :
                        /\ log[j].kind = "inserted"
                        /\ log[j].cause = log[k].cause
                        /\ IsReplay(log[j].cause)
    /\ \A m \in 1..Len(log) :
          log[m].kind = "endNotifications" =>
              \E k \in 1..(m - 1) :
                  /\ log[k].kind = "beginNotifications"
                  /\ log[k].cause = log[m].cause
    /\ Cardinality({k \in 1..Len(log) : log[k].kind = "beginNotifications"})
          = Cardinality({k \in 1..Len(log) : log[k].kind = "endNotifications"})

\* A replay batch of several inserted calls and, after it, an inserted call
\* caused by a vector change are both in the log.
C19_Witness ==
    /\ \E k \in 1..Len(log) :
          /\ log[k].kind = "beginNotifications"
          /\ k + 3 <= Len(log)
          /\ log[k + 3].kind = "endNotifications"
    /\ \E k \in 1..Len(log) : log[k].kind = "inserted" /\ ~IsReplay(log[k].cause)

\* The list a consumer keeps: it applies inserted at the given index, removed
\* at the given index, changed by key, and reloads the keys on reload.
KeysOf(v) == [k \in 1..Len(v) |-> keySelector(v[k])]

ApplyCall(view, e) ==
    CASE e.kind = "inserted" ->
            LET i == IF e.args[4] > Len(view) THEN Len(view) ELSE e.args[4]
            IN  SubSeq(view, 1, i) \o <<e.args[1].key>> \o SubSeq(view, i + 1, Len(view))
      [] e.kind = "removed" ->
            IF e.args[2] < Len(view)
            THEN SubSeq(view, 1, e.args[2]) \o SubSeq(view, e.args[2] + 2, Len(view))
            ELSE view
      [] e.kind = "reload" -> KeysOf(RunOf(e.cause).vec)
      [] OTHER -> view

RECURSIVE ViewAfter(_)
ViewAfter(n) == IF n = 0 THEN <<>> ELSE ApplyCall(ViewAfter(n - 1), log[n])

\* C17: a handler that starts from an empty list when it is attached and
\* applies every call it receives ends up, once all pending deferred calls
\* have run, with the keys of the observable vector in order, for every
\* interleaving of vector events with the attach and with the deliveries.
\* (Stated for runs with a single setNotificationHandler call.)
C17_ViewConverges ==
    (queue = <<>> /\ Cardinality({id \in TaskIds : IsReplay(id)}) = 1) =>
        ViewAfter(Len(log)) = KeysOf(vec)

\* ------------------------------------------- the adapter and its host at once
\* The host's vector operations, setNotificationHandler and the deferred
\* callbacks as in Spec, and a fetch by the consumer once the host is done and
\* every callback has run.
FrameFetch ==
    /\ fetched = NoFetch
    /\ queue = <<>>
    /\ ops = MaxOps
    /\ FetchNext

FrameNext == Next \/ FrameFetch

FrameSpec == Init /\ [][FrameNext]_vars

\* The steps taken by the adapter: setNotificationHandler, a deferred callback
\* (replay or notification), a fetch.  All other steps are the host's own
\* operations on the vector.
AttachStep ==
    /\ Len(scheduled') = Len(scheduled) + 1
    /\ scheduled'[Len(scheduled')].type = "replay"
CallbackStep == Len(ran') = Len(ran) + 1
FetchStep == fetched' /= fetched
AdapterStep == AttachStep \/ CallbackStep \/ FetchStep

\* C11: no adapter operation (getCount, itemsFromIndex, itemsFromStart,
\* itemsFromEnd, setNotificationHandler, the replay, the delivery of a deferred
\* notification) changes the contents or the length of the observable vector.
C11_VectorUntouched == [][AdapterStep => vec' = vec]_vars

\* The host has changed the vector under an attached handler, a replay and a
\* notification have been delivered, and a fetch has been answered, on a
\* vector that still holds elements.
C11_Witness ==
    /\ fetched /= NoFetch
    /\ vec /= <<>>
    /\ \E k \in 1..Len(ran) : IsReplay(ran[k].id) /\ CallsOf(ran[k].id) /= <<>>
    /\ \E k \in 1..Len(ran) : ~IsReplay(ran[k].id) /\ CallsOf(ran[k].id) /= <<>>

\* ------------------------------------------------------ flyout components
\* createFlyoutConstructor of lib/ui/components, as its specification and its
\* tests (src/test/ui_components.coffee) describe it, on the tests' Presenter.
RootElement == "componentRootEl"
NoAnchor == "none"
Anchors == {"anchorEl", "otherEl"}
OptionSets ==
    [anchor : {NoAnchor, "anchorEl"}, placement : {"none", "top"},
     alignment : {"none", "left"},
     plugins : {<<>>, <<"fooPlugin">>, <<"fooPlugin", "barPlugin">>,
                <<"barPlugin", "fooPlugin">>}]

\* The Presenter of the tests: winControl.show throws unless the control has
\* an anchor or is given one.
WinControlShow(control, anchor) ==
    IF control.anchor = NoAnchor /\ anchor = NoAnchor THEN "throws" ELSE "returns"
\* presenter.use(plugin): plugin.process(componentRootEl)
PresenterUse(plugin) == [plugin |-> plugin, element |-> RootElement]
\* presenter.process(): Q.resolve(componentRootEl)
PresenterProcess == RootElement

\* new FlyoutComponent(options): the presenter is built, its root element
\* carries the native control, component.anchor is options.anchor.
Construct(options) ==
    [stage |-> "constructed", options |-> options, anchor |-> options.anchor,
     rendered |-> FALSE, atProcess |-> NoAnchor, during |-> FALSE, resolved |-> "none",
     control |-> [anchor |-> NoAnchor, placement |-> "none", alignment |-> "none",
                  listeners |-> {}, show |-> <<>>, hide |-> 0],
     pluginCalls |-> <<>>, shows |-> <<>>]

ComponentFrame ==
    UNCHANGED <<vec, handler, strict, queue, log, scheduled, ran, tick, phase, ops, fetched>>

\* component.anchor = a, before or after process().  atProcess and during
\* are history: the anchor when process() was called, and whether it was
\* assigned again before process() resolved.
ComponentSetAnchor ==
    \E a \in Anchors :
        /\ component.stage /= "none"
        /\ component.anchor /= a
        /\ component' = [component EXCEPT !.anchor = a,
                            !.during = @ \/ component.stage = "processing"]
        /\ ComponentFrame

\* component.render(): returns the root element.
ComponentRender ==
    /\ component.stage /= "none"
    /\ ~component.rendered
    /\ component' = [component EXCEPT !.rendered = TRUE]
    /\ ComponentFrame

\* component.process() is called.
ComponentProcess ==
    /\ component.stage = "constructed"
    /\ component' = [component EXCEPT !.stage = "processing",
                                      !.atProcess = component.anchor]
    /\ ComponentFrame

\* A plugin step that takes the plugins from the end of the list.
ComponentUsePluginLastFirst ==
    /\ component.stage = "processing"
    /\ Len(component.pluginCalls) < Len(component.options.plugins)
    /\ component' = [component EXCEPT !.pluginCalls = Append(@,
           PresenterUse(component.options.plugins[
               Len(component.options.plugins) - Len(component.pluginCalls)]))]
    /\ ComponentFrame

\* The next plugin of options.plugins, in list order, processes the root element.
ComponentUsePlugin ==
    /\ component.stage = "processing"
    /\ Len(component.pluginCalls) < Len(component.options.plugins)
    /\ component' = [component EXCEPT !.pluginCalls = Append(@,
           PresenterUse(component.options.plugins[Len(component.pluginCalls) + 1]))]
    /\ ComponentFrame

\* The control's properties once processing is done: anchor, placement and
\* alignment are propagated when set, aftershow / afterhide are listened to.
Propagated(control, anchor, options) ==
    [control EXCEPT
        !.anchor = IF anchor /= NoAnchor THEN anchor ELSE @,
        !.placement = IF options.placement /= "none" THEN options.placement ELSE @,
        !.alignment = IF options.alignment /= "none" THEN options.alignment ELSE @,
        !.listeners = @ \cup {"aftershow", "afterhide"}]

\* A resolution that propagates the anchor of the constructor options only.
ComponentProcessedFromOptions ==
    /\ component.stage = "processing"
    /\ Len(component.pluginCalls) = Len(component.options.plugins)
    /\ component' = [component EXCEPT
           !.stage = "processed",
           !.resolved = PresenterProcess,
           !.control = Propagated(@, component.options.anchor, component.options)]
    /\ ComponentFrame

\* process() resolves with the root element, presenter set up and plugins done.
ComponentProcessed ==
    /\ component.stage = "processing"
    /\ Len(component.pluginCalls) = Len(component.options.plugins)
    /\ component' = [component EXCEPT
           !.stage = "processed",
           !.resolved = PresenterProcess,
           !.control = Propagated(@, component.anchor, component.options)]
    /\ ComponentFrame

\* A show that always proxies to the control, inside the promise.
ShowAlwaysProxies(c, anchorArg) ==
    [arg |-> anchorArg, invoked |-> TRUE,
     result |-> IF WinControlShow(c.control, anchorArg) = "throws"
                THEN "rejected" ELSE "fulfilled"]

\* component.show(anchorArg): fails, as a rejected promise, when no anchor has
\* been established by option, property or argument; proxies to the control's
\* show otherwise.
Show(c, anchorArg) ==
    IF c.anchor = NoAnchor /\ anchorArg = NoAnchor
    THEN [arg |-> anchorArg, invoked |-> FALSE, result |-> "rejected"]
    ELSE [arg |-> anchorArg, invoked |-> TRUE,
          result |-> IF WinControlShow([c.control EXCEPT !.anchor = c.anchor], anchorArg)
                          = "throws"
                     THEN "rejected" ELSE "fulfilled"]

CallsMade == Len(component.shows) + component.control.hide

ComponentShow ==
    \E anchorArg \in Anchors \cup {NoAnchor} :
        /\ component.stage = "processed"
        /\ CallsMade < MaxCalls
        /\ LET shown == Show(component, anchorArg)
           IN  component' = [component EXCEPT
                   !.shows = Append(@, shown),
                   !.control.show = IF shown.invoked THEN Append(@, anchorArg) ELSE @]
        /\ ComponentFrame

\* component.hide(): proxies to the control's hide.
ComponentHide ==
    /\ component.stage = "processed"
    /\ CallsMade < MaxCalls
    /\ component' = [component EXCEPT !.control.hide = @ + 1]
    /\ ComponentFrame

ComponentInit ==
    /\ vec = <<>>
    /\ handler = NoHandler
    /\ strict = FALSE
    /\ queue = <<>>
    /\ log = <<>>
    /\ scheduled = <<>>
    /\ ran = <<>>
    /\ tick = 0
    /\ phase = "host"
    /\ ops = 0
    /\ fetched = NoFetch
    /\ component \in {Construct(options) : options \in OptionSets}

ComponentNext ==
    \/ ComponentSetAnchor
    \/ ComponentRender
    \/ ComponentProcess
    \/ ComponentUsePlugin
    \/ ComponentProcessed
    \/ ComponentShow
    \/ ComponentHide

ComponentSpec == ComponentInit /\ [][ComponentNext]_vars

\* C12: a flyout constructed with no anchor option and never given an anchor,
\* shown with no argument after process() has resolved, returns a rejected
\* promise, never throws synchronously, and the control's show is not invoked.
C12_ShowWithoutAnchorRejected ==
    (component.stage = "processed" /\ component.options.anchor = NoAnchor
        /\ component.anchor = NoAnchor) =>
        /\ \A k \in 1..Len(component.shows) :
              component.shows[k].arg = NoAnchor =>
                  /\ component.shows[k].result = "rejected"
                  /\ ~component.shows[k].invoked
        /\ \A k \in 1..Len(component.control.show) :
              component.control.show[k] /= NoAnchor
        /\ Len(component.control.show)
              = Cardinality({k \in 1..Len(component.shows) :
                                component.shows[k].arg /= NoAnchor})

\* A flyout with no anchor was shown with no argument and refused, and shown
\* with an anchor argument, which reached the control.
C12_Witness ==
    /\ component.stage = "processed"
    /\ component.options.anchor = NoAnchor
    /\ component.anchor = NoAnchor
    /\ \E k \in 1..Len(component.shows) :
          component.shows[k].arg = NoAnchor /\ component.shows[k].result = "rejected"
    /\ Len(component.control.show) = 1

\* C13: when the anchor has been established as A before process(), by the
\* constructor option or by assigning component.anchor, the control's anchor
\* is A once process() has resolved; likewise the placement and alignment
\* options and the control's placement and alignment.
C13_AnchorPropagated ==
    component.stage = "processed" =>
        /\ (component.atProcess /= NoAnchor /\ ~component.during) =>
              component.control.anchor = component.atProcess
        /\ component.options.placement /= "none" =>
              component.control.placement = component.options.placement
        /\ component.options.alignment /= "none" =>
              component.control.alignment = component.options.alignment

\* A flyout built with an anchor option, given another anchor by assignment
\* before process(), and with placement and alignment options, was processed.
C13_Witness ==
    /\ component.stage = "processed"
    /\ component.options.anchor /= NoAnchor
    /\ component.atProcess /= NoAnchor
    /\ component.atProcess /= component.options.anchor
    /\ ~component.during
    /\ component.options.placement /= "none"
    /\ component.options.alignment /= "none"

\* C14: for a component constructed with plugins [p1, ..., pn], by the time
\* process() resolves each plugin's process has been called exactly once, with
\* the root element, in list order.
C14_PluginsInOrder ==
    /\ component.stage = "processed" =>
          /\ component.resolved = RootElement
          /\ Len(component.pluginCalls) = Len(component.options.plugins)
    /\ component.stage /= "none" =>
          /\ Len(component.pluginCalls) <= Len(component.options.plugins)
          /\ \A k \in 1..Len(component.pluginCalls) :
                /\ component.pluginCalls[k].plugin = component.options.plugins[k]
                /\ component.pluginCalls[k].element = RootElement

\* process() has resolved for a component with two plugins.
C14_Witness ==
    /\ component.stage = "processed"
    /\ Len(component.options.plugins) = 2
    /\ Len(component.pluginCalls) = 2

====
